---- MODULE Spec2Model ----
(***************************************************************************)
(* Model of the mcas autoscaler: the scaling orchestrator                    *)
(* (autoscaler/scaler.go), its triggers (the interval loop and the cron      *)
(* schedule entries) and the Hetzner provider adapter                        *)
(* (providers/hcloud/hcloud.go).                                             *)
(*                                                                           *)
(* Each driver goroutine (the main loop, one goroutine per cron fire) is a   *)
(* process with a program counter.  Every call to a collaborator (metrics    *)
(* backend, RCON channel, cloud API) is one step whose outcome is chosen     *)
(* from the outcomes the collaborator can produce.                           *)
(***************************************************************************)
EXTENDS Integers, Sequences, FiniteSets, TLC

\* ------------------------------------------------------------------------
\* Bounds of the model
\* ------------------------------------------------------------------------
StartTime == 1          \* wall clock at start-up, in cooldown units
MaxTime == 2            \* the clock stops ticking here
MaxMove == 3             \* largest magnitude of an action given to getNewSize
MaxOperand == 3          \* largest operand of a size guard given to evaluateIfSize
MaxLists == 1           \* the count of occupancy polls saturates here

\* ------------------------------------------------------------------------
\* Program constants and configuration
\* ------------------------------------------------------------------------
MaxAttempts == 24                \* waitForAction: "if attempt > 24"
MinTimeBetweenActions == 1       \* --min-time-between-scale
ZeroTime == 0                    \* the zero time.Time of a fresh Autoscaler

\* the driver goroutines: the interval loop, and the goroutine of the cron
\* fire in flight (one fire at a time)
Procs == {"loop", "cron"}
CronProcs == {"cron"}

SizeNames == {"small", "medium", "large", "xl"}
Price == [s \in SizeNames |->
            CASE s = "small" -> 1 [] s = "medium" -> 2
              [] s = "large" -> 3 [] OTHER -> 4]
AllowedSizes == {"small", "medium", "large"}

\* rules file: [[rules]] in evaluation order, [[schedule]] one per cron job
Rules == << [Query |-> "q1", Action |-> 1], [Query |-> "q2", Action |-> -1] >>
Schedule == << [Action |-> -1, IfSize |-> <<">", " ", "0">>],
              [Action |-> 1, IfSize |-> <<>>],
              [Action |-> 1, IfSize |-> <<"<", " ", "2">>],
              [Action |-> -1, IfSize |-> <<">", "=", " ", "1">>],
              [Action |-> 1, IfSize |-> <<"<", "=", " ", "1">>],
              [Action |-> 1, IfSize |-> <<"=", " ", "1">>],
              [Action |-> -1, IfSize |-> <<"=", "=", " ", "1">>],
              [Action |-> -1, IfSize |-> <<">", "0">>],
              [Action |-> 1, IfSize |-> <<"<", " ", "x">>],
              [Action |-> 2, IfSize |-> <<"<", " ", "1">>],
              [Action |-> 0, IfSize |-> <<>>] >>

\* ------------------------------------------------------------------------
\* Error values: the chain of wrapped messages, outermost first
\* ------------------------------------------------------------------------
Nil == <<>>
Wrap(msg, e) == <<msg>> \o e
ApiErr == <<"hcloud api error">>
RconErr == <<"rcon io error">>
CtxErr == <<"context canceled">>
ErrInProgress == <<"scaling already in progress">>
ErrTooSoon == <<"scaling too soon">>
Has(e, msg) == \E i \in 1..Len(e) : e[i] = msg

\* the error of a cloud API request: a cancelled context fails the request
ApiFailure(done) == IF done THEN CtxErr ELSE ApiErr

VARIABLES
  pc,                \* position of each driver goroutine
  dir,               \* direction argument of the CanScale/DoScale in flight
  err,               \* error returned by the last DoScale / CoreLoop
  newSize,           \* DoScale: target size resolved by getNewSize
  attempt,           \* waitForAction: attempt counter
  h,                 \* per DoScale invocation: what it has issued so far
  scaleLock,         \* Autoscaler.scaleLock is held
  lastScaledAt,      \* Autoscaler.lastScaledAt
  now,               \* the latest reading of the wall clock
  ctxDone,           \* the interrupt context is cancelled
  mux,               \* HCloudAutoscaler.mux is held
  serverTypesCache,  \* HCloudAutoscaler.serverTypesCache (names of the types)
  serverType,        \* provider: type of the managed server
  serverStatus       \* provider: "running", "stopping" or "off"

vars == << pc, dir, err, newSize, attempt, h, scaleLock, lastScaledAt, now,
           ctxDone, mux, serverTypesCache, serverType,
           serverStatus >>

procVars == << pc, dir, err, newSize, attempt, h >>
lockVars == << scaleLock, lastScaledAt >>
envVars == << now, ctxDone >>
cacheVars == << serverTypesCache >>
srvVars == << mux, serverType, serverStatus >>

\* a nil serverTypesCache
NoCache == {}

\* history of one DoScale invocation
H0 == [ lsaEntry |-> ZeroTime,   \* lastScaledAt when the call started
        notify |-> 0,            \* broadcast commands issued
        lists |-> 0,             \* occupancy polls issued (saturating)
        zero |-> FALSE,          \* an occupancy poll reported 0 players
        stopCmd |-> 0,           \* stop commands issued to the process
        stopSent |-> FALSE,      \* a stop command went out without error
        drained |-> FALSE,       \* prepareForScalingAction returned nil
        shutdown |-> 0,          \* provider Shutdown calls
        sawOff |-> FALSE,        \* a status read observed the server off
        stopped |-> FALSE,       \* StopServer returned nil
        changeType |-> 0,        \* provider ChangeType calls
        target |-> "",           \* size passed to ChangeType
        offAtResize |-> TRUE,    \* server was off when ChangeType was called
        poweron |-> 0,           \* provider Poweron calls
        polls |-> 0,             \* Action.GetByID polls of the wait in progress
        statusRead |-> FALSE,    \* StopServer has read the server status
        timedOut |-> FALSE,      \* a waitForAction ran out of attempts
        innerErr |-> Nil,        \* error of resizeServerInner
        recErr |-> Nil,          \* error of the recovery Poweron
        cancelled |-> FALSE,     \* a wait of the call took ctx.Done()
        tick |-> FALSE,          \* parity of the status reads of StopServer
        outs |-> <<>>,           \* CoreLoop: results of the rule queries issued
        entry |-> 0,             \* Run: schedule entry whose guard was just tested
        resp |-> <<>> ]          \* drain loop: the response to "list" it waits on or failed on

\* a reading of the clock: never earlier than the one before
Readings == now..MaxTime

Init ==
  /\ pc = [p \in Procs |-> "idle"]
  /\ dir = [p \in Procs |-> 0]
  /\ err = [p \in Procs |-> Nil]
  /\ newSize = [p \in Procs |-> ""]
  /\ attempt = [p \in Procs |-> 0]
  /\ h = [p \in Procs |-> H0]
  /\ scaleLock = FALSE
  /\ lastScaledAt = ZeroTime
  /\ now = StartTime
  /\ ctxDone = FALSE
  /\ mux = FALSE
  /\ serverTypesCache = NoCache
  /\ serverType \in {"medium", "xl"}
  /\ serverStatus = "running"

\* ------------------------------------------------------------------------
\* Size ladder (scaler.go getCurrentSize / getNewSize, hcloud.go
\* GetAvailableSizes)
\* ------------------------------------------------------------------------
RECURSIVE SortByPrice(_)
SortByPrice(S) ==
  IF S = {} THEN <<>>
  ELSE LET m == CHOOSE x \in S : \A y \in S : Price[x] <= Price[y]
       IN <<m>> \o SortByPrice(S \ {m})

\* slices.Index: 0-based position of x, -1 when absent
IndexOf(seq, x) ==
  IF \E i \in 1..Len(seq) : seq[i] = x
    THEN (CHOOSE i \in 1..Len(seq) :
            seq[i] = x /\ \A j \in 1..(i - 1) : seq[j] # x) - 1
    ELSE -1

\* slices.DeleteFunc(sizes, not allowed)
FilterAllowed(sizes) == SelectSeq(sizes, LAMBDA s : s \in AllowedSizes)

\* what ServerType.All returns: every type, or all but the withdrawn "large"
Offer(o) == IF o = "fewer" THEN SizeNames \ {"large"} ELSE SizeNames

\* the cache test of updateServerTypesUNLOCKED, aged tells whether
\* time.Since(serverTypesAge) has reached the cache lifetime
CacheFresh(aged) == serverTypesCache # NoCache /\ ~aged

\* updateServerTypesUNLOCKED: o is "fresh" when the cache is young enough,
\* "typesErr" when the ServerType.All request fails, else "all" or "fewer",
\* the offer it returns.  Yields the error and the cache after the call.
updateServerTypes(o) ==
  IF CacheFresh(o # "fresh")
    THEN [err |-> Nil, cache |-> serverTypesCache]
    ELSE IF o = "typesErr"
      THEN [err |-> Wrap("hcloud: failed to get server types", ApiFailure(ctxDone)),
            cache |-> serverTypesCache]
      ELSE [err |-> Nil, cache |-> Offer(o)]

\* GetAvailableSizes: o = "serverErr" when Server.GetByID fails, else the
\* outcome of ServerType.All
GetAvailableSizes(o) ==
  IF o = "serverErr"
    THEN [err |-> Wrap("hcloud: failed to get server by ID", ApiFailure(ctxDone)),
          cache |-> serverTypesCache, sizes |-> <<>>]
    ELSE LET u == updateServerTypes(o)
         IN IF u.err # Nil
              THEN [err |-> u.err, cache |-> u.cache, sizes |-> <<>>]
              ELSE [err |-> Nil, cache |-> u.cache, sizes |-> SortByPrice(u.cache)]

\* GetCurrentSize: o = "serverErr" when Server.GetByID fails
GetCurrentSize(o) ==
  IF o = "serverErr"
    THEN [err |-> Wrap("hcloud: failed to get server by ID", ApiFailure(ctxDone)),
          size |-> ""]
    ELSE [err |-> Nil, size |-> serverType]

\* faulty variant: a current size missing from the sizes counts as index 0
getCurrentSizeFirstWhenMissing(o1, o2) ==
  LET av == GetAvailableSizes(o1)
      cur == GetCurrentSize(o2)
      sizes == FilterAllowed(av.sizes)
      base == [cache |-> av.cache, index |-> 0, sizes |-> <<>>]
  IN IF av.err # Nil
       THEN base @@ [err |-> Wrap("failed to get scale sizes", av.err)]
     ELSE IF cur.err # Nil
       THEN base @@ [err |-> Wrap("failed to get current size", cur.err)]
     ELSE IF IndexOf(sizes, cur.size) = -1
       THEN [base EXCEPT !.sizes = sizes] @@ [err |-> Nil]
     ELSE [base EXCEPT !.index = IndexOf(sizes, cur.size), !.sizes = sizes] @@
          [err |-> Nil]

\* Autoscaler.getCurrentSize with the outcomes o1, o2 of its two provider calls
getCurrentSize(o1, o2) ==
  LET av == GetAvailableSizes(o1)
      cur == GetCurrentSize(o2)
      sizes == FilterAllowed(av.sizes)
      base == [cache |-> av.cache, index |-> 0, sizes |-> <<>>]
  IN IF av.err # Nil
       THEN base @@ [err |-> Wrap("failed to get scale sizes", av.err)]
     ELSE IF cur.err # Nil
       THEN base @@ [err |-> Wrap("failed to get current size", cur.err)]
     ELSE IF IndexOf(sizes, cur.size) = -1
       THEN base @@ [err |-> <<"current size not found in sizes">>]
     ELSE [base EXCEPT !.index = IndexOf(sizes, cur.size), !.sizes = sizes] @@
          [err |-> Nil]

\* outcomes of one cloud API request sequence; a cache that exists may be
\* found young enough
TypesOutcomes ==
  (IF ctxDone THEN {"typesErr"} ELSE {"typesErr", "all", "fewer"})
    \cup (IF serverTypesCache # NoCache THEN {"fresh"} ELSE {})
SizeOutcomes == IF ctxDone THEN {"serverErr"} ELSE {"serverErr"} \cup TypesOutcomes
CallOutcomes == IF ctxDone THEN {"serverErr"} ELSE {"ok", "serverErr"}

\* faulty variant: an index past either end wraps around
getNewSizeWraps(current, action, sizes) ==
  LET n == (current + action) % Len(sizes)
  IN [index |-> n, size |-> sizes[n + 1]]

\* faulty variant: the action is subtracted from the current index
getNewSizeReversed(current, action, sizes) ==
  LET n0 == current - action
      n1 == IF n0 < 0 THEN 0 ELSE n0
      n2 == IF n1 >= Len(sizes) THEN Len(sizes) - 1 ELSE n1
  IN [index |-> n2, size |-> sizes[n2 + 1]]

\* Autoscaler.getNewSize
getNewSize(current, action, sizes) ==
  LET n0 == current + action
      n1 == IF n0 < 0 THEN 0 ELSE n0
      n2 == IF n1 >= Len(sizes) THEN Len(sizes) - 1 ELSE n1
  IN [index |-> n2, size |-> sizes[n2 + 1]]

\* faulty variant: CanScale answers true only for a larger size
CanScaleUpOnly(r, direction) ==
  IF r.err # Nil
    THEN [ok |-> FALSE, err |-> Wrap("failed to get current size", r.err)]
    ELSE [ok |-> getNewSize(r.index, direction, r.sizes).index > r.index,
          err |-> Nil]

\* faulty variant: CanScale answers true whenever the size could be read
CanScaleAlways(r, direction) ==
  IF r.err # Nil
    THEN [ok |-> FALSE, err |-> Wrap("failed to get current size", r.err)]
    ELSE [ok |-> TRUE, err |-> Nil]

\* Autoscaler.CanScale on the result r of getCurrentSize
CanScale(r, direction) ==
  IF r.err # Nil
    THEN [ok |-> FALSE, err |-> Wrap("failed to get current size", r.err)]
    ELSE [ok |-> getNewSize(r.index, direction, r.sizes).index # r.index,
          err |-> Nil]

\* ------------------------------------------------------------------------
\* Schedule size guard (ScaleSchedule.evaluateIfSize)
\* ------------------------------------------------------------------------
DigitVal(c) ==
  CASE c = "0" -> 0 [] c = "1" -> 1 [] c = "2" -> 2 [] c = "3" -> 3
    [] c = "4" -> 4 [] c = "5" -> 5 [] c = "6" -> 6 [] c = "7" -> 7
    [] c = "8" -> 8 [] c = "9" -> 9 [] OTHER -> -1

RECURSIVE DigitsValue(_, _)
DigitsValue(s, acc) ==
  IF s = <<>> THEN acc ELSE DigitsValue(Tail(s), acc * 10 + DigitVal(Head(s)))

\* strconv.Atoi: optional sign, then at least one digit, nothing else
Atoi(s) ==
  LET body == IF s # <<>> /\ Head(s) \in {"+", "-"} THEN Tail(s) ELSE s
      okay == body # <<>> /\ \A i \in 1..Len(body) : DigitVal(body[i]) >= 0
  IN IF ~okay THEN [ok |-> FALSE, val |-> 0]
     ELSE [ok |-> TRUE,
           val |-> IF Head(s) = "-" THEN 0 - DigitsValue(body, 0)
                                    ELSE DigitsValue(body, 0)]

\* strings.Cut(s, " ")
Cut(s) ==
  LET at == IndexOf(s, " ")
  IN IF at = -1 THEN [before |-> s, after |-> <<>>, found |-> FALSE]
     ELSE [before |-> SubSeq(s, 1, at), after |-> SubSeq(s, at + 2, Len(s)),
           found |-> TRUE]

\* faulty variant: "==" compares for equality as "=" does
evaluateIfSizeDoubleEquals(ifSize, current) ==
  LET c == Cut(ifSize)
      n == Atoi(c.after)
      op == c.before
  IN IF ~c.found \/ ~n.ok THEN FALSE
     ELSE IF op = <<">">> THEN current > n.val
     ELSE IF op = <<"<">> THEN current < n.val
     ELSE IF op = <<">", "=">> THEN current >= n.val
     ELSE IF op = <<"<", "=">> THEN current <= n.val
     ELSE IF op \in {<<"=", "=">>, <<"=">>} THEN current = n.val
     ELSE FALSE

\* faulty variant: ">=" and "<=" compare strictly
evaluateIfSizeStrict(ifSize, current) ==
  LET c == Cut(ifSize)
      n == Atoi(c.after)
      op == c.before
  IN IF ~c.found \/ ~n.ok THEN FALSE
     ELSE IF op \in {<<">">>, <<">", "=">>} THEN current > n.val
     ELSE IF op \in {<<"<">>, <<"<", "=">>} THEN current < n.val
     ELSE IF op = <<"=">> THEN current = n.val
     ELSE FALSE

evaluateIfSize(ifSize, current) ==
  LET c == Cut(ifSize)
      n == Atoi(c.after)
      op == c.before
  IN IF ~c.found THEN FALSE
     ELSE IF ~n.ok THEN FALSE
     ELSE IF op = <<">">> THEN current > n.val
     ELSE IF op = <<"<">> THEN current < n.val
     ELSE IF op = <<">", "=">> THEN current >= n.val
     ELSE IF op = <<"<", "=">> THEN current <= n.val
     ELSE IF op = <<"=", "=">> THEN FALSE   \* empty case: falls out of the switch
     ELSE IF op = <<"=">> THEN current = n.val
     ELSE FALSE

\* ------------------------------------------------------------------------
\* Occupancy response parsing (scaler.go listRe, formatRe)
\* ------------------------------------------------------------------------
Digits == {"0", "1", "2", "3", "4", "5", "6", "7", "8", "9"}
LowerLetters == {"a", "b", "c", "d", "e", "f", "g", "h", "i", "j", "k", "l", "m",
                 "n", "o", "p", "q", "r", "s", "t", "u", "v", "w", "x", "y", "z"}
Marker == "§"

\* formatRe.ReplaceAllString(resp, ""): drop every marker followed by [0-9a-z]
RECURSIVE StripFormat(_)
StripFormat(s) ==
  IF s = <<>> THEN <<>>
  ELSE IF Len(s) >= 2 /\ s[1] = Marker /\ s[2] \in (Digits \cup LowerLetters)
    THEN StripFormat(SubSeq(s, 3, Len(s)))
    ELSE <<s[1]>> \o StripFormat(Tail(s))

LitThereAre == <<"T", "h", "e", "r", "e", " ", "a", "r", "e", " ">>
LitOutOf == <<" ", "o", "u", "t", " ", "o", "f", " ", "m", "a", "x", "i", "m",
              "u", "m", " ">>
LitOnline == <<" ", "p", "l", "a", "y", "e", "r", "s", " ", "o", "n", "l", "i",
               "n", "e", ".">>

\* s has the literal lit at position i (1-based)
HasAt(s, i, lit) ==
  /\ i + Len(lit) - 1 <= Len(s)
  /\ \A k \in 1..Len(lit) : s[i + k - 1] = lit[k]

\* length of the run of digits of s that starts at position i
RECURSIVE DigitRun(_, _)
DigitRun(s, i) ==
  IF i <= Len(s) /\ s[i] \in Digits THEN 1 + DigitRun(s, i + 1) ELSE 0

\* listRe matched at position i: "There are (\d+) out of maximum \d+ players online\."
MatchAt(s, i) ==
  LET a == i + Len(LitThereAre)
      n == DigitRun(s, a)
      b == a + n + Len(LitOutOf)
      m == DigitRun(s, b)
  IN /\ HasAt(s, i, LitThereAre)
     /\ n >= 1
     /\ HasAt(s, a + n, LitOutOf)
     /\ m >= 1
     /\ HasAt(s, b + m, LitOnline)

\* listRe.FindStringSubmatch: the first group of the leftmost match
FindCount(s) ==
  IF \E i \in 1..Len(s) : MatchAt(s, i)
    THEN LET i == CHOOSE k \in 1..Len(s) :
                    MatchAt(s, k) /\ \A j \in 1..(k - 1) : ~MatchAt(s, j)
             a == i + Len(LitThereAre)
         IN [matched |-> TRUE, count |-> SubSeq(s, a, a + DigitRun(s, a) - 1)]
    ELSE [matched |-> FALSE, count |-> <<>>]

\* faulty variant: a response that does not match counts as players online
ParseListLenient(resp) ==
  LET m == FindCount(StripFormat(resp))
  IN IF m.matched /\ m.count = <<"0">> THEN "empty" ELSE "occupied"

\* one iteration's verdict on a response: "empty", "occupied" or "mismatch"
ParseList(resp) ==
  LET m == FindCount(StripFormat(resp))
  IN IF ~m.matched THEN "mismatch"
     ELSE IF m.count = <<"0">> THEN "empty"   \* match[1] == "0"
     ELSE "occupied"

\* responses the managed process may give to "list"
ListResponses ==
  { LitThereAre \o <<"0">> \o LitOutOf \o <<"2", "0">> \o LitOnline,
    LitThereAre \o <<"3">> \o LitOutOf \o <<"2", "0">> \o LitOnline,
    <<Marker, "6">> \o LitThereAre \o <<Marker, "c", "0">> \o LitOutOf
        \o <<"2", "0">> \o LitOnline \o <<Marker, "r">>,
    LitThereAre \o <<"1", "0">> \o LitOutOf \o <<"2", "0">> \o LitOnline
        \o <<" ", "b", "o", "b">>,
    <<"U", "n", "k", "n", "o", "w", "n", " ", "c", "o", "m", "m", "a", "n", "d">> }

\* ------------------------------------------------------------------------
\* Rule evaluation (EvaluateRule, CoreLoop)
\* ------------------------------------------------------------------------
QueryOutcomes == IF ctxDone THEN {"err"} ELSE {"err", "scalar", "empty", "match"}

\* faulty variant: a failed query or a non-vector result counts as "not met"
EvaluateRuleLenient(o) ==
  IF o = "match" THEN [res |-> TRUE, err |-> Nil] ELSE [res |-> FALSE, err |-> Nil]

\* EvaluateRule on the outcome o of Metrics.Query
EvaluateRule(o) ==
  CASE o = "err" ->
         [res |-> FALSE, err |-> <<"failed to query for rule", "failed to query prometheus">>]
    [] o = "scalar" -> [res |-> FALSE, err |-> <<"expected vector result">>]
    [] o = "empty" -> [res |-> FALSE, err |-> Nil]
    [] OTHER -> [res |-> TRUE, err |-> Nil]

\* faulty variant: every rule is queried and the last rule that is met decides
ScanRulesLastWins(i, outs) ==
  LET bad == {j \in i..Len(Rules) : EvaluateRule(outs[j]).err # Nil}
      met == {j \in i..Len(Rules) : EvaluateRule(outs[j]).res}
      first == CHOOSE j \in bad : \A k \in bad : j <= k
      last == CHOOSE j \in met : \A k \in met : j >= k
  IN IF bad # {}
       THEN [kind |-> "error", action |-> 0,
             err |-> Wrap("failed to evaluate rule", EvaluateRule(outs[first]).err),
             last |-> first]
     ELSE IF met = {}
       THEN [kind |-> "none", action |-> 0, err |-> Nil, last |-> Len(Rules)]
     ELSE [kind |-> "met", action |-> Rules[last].Action, err |-> Nil,
           last |-> Len(Rules)]

\* the for loop of CoreLoop from rule i on: which rule decided, and how
RECURSIVE ScanRules(_, _)
ScanRules(i, outs) ==
  IF i > Len(Rules) THEN [kind |-> "none", action |-> 0, err |-> Nil, last |-> i - 1]
  ELSE LET e == EvaluateRule(outs[i])
       IN IF e.err # Nil
            THEN [kind |-> "error", action |-> 0,
                  err |-> Wrap("failed to evaluate rule", e.err), last |-> i]
          ELSE IF ~e.res THEN ScanRules(i + 1, outs)
          ELSE [kind |-> "met", action |-> Rules[i].Action, err |-> Nil, last |-> i]

\* ------------------------------------------------------------------------
\* Building blocks of the DoScale steps
\* ------------------------------------------------------------------------
\* faulty variant: the cooldown test never rejects
TooSoonNever(last, d, t) == FALSE

\* faulty variant: a blocking Lock that is granted while the mutex is held
TryLockAlways(l) == TRUE

\* sync.Mutex.TryLock on a mutex whose held flag is l
TryLock(l) == ~l

\* faulty variant: the deferred Unlock is missing
UnlockSkipped(l) == l

\* the deferred a.scaleLock.Unlock()
Unlock(l) == FALSE

\* faulty variant: the boundary instant still counts as too soon
TooSoonInclusive(last, d, t) == last + d >= t

\* the cooldown test: lastScaledAt.Add(MinTimeBetweenActions).After(time.Now())
TooSoon(last, d, t) == last + d > t

\* A call that has just returned is handed to its caller before any other
\* goroutine is scheduled: the hand-over touches only the caller's own
\* locals, so it commutes with every other step.
Returning == \E q \in Procs : pc[q] \in {"ret", "loopRet", "cycleEnd", "guarded"}

Goto(p, where) == pc' = [pc EXCEPT ![p] = where]

\* DoScale goes on to its next statement
Continue(p, where) == Goto(p, where) /\ UNCHANGED << err, scaleLock >>

\* DoScale returns e after the lock was taken; the deferred Unlock runs
Return(p, e) ==
  /\ Goto(p, "ret")
  /\ err' = [err EXCEPT ![p] = e]
  /\ scaleLock' = Unlock(scaleLock)

Bump(p, f) == [h EXCEPT ![p][f] = @ + 1]
Mark(p, f, v) == [h EXCEPT ![p][f] = v]

PrepErr(e) == Wrap("failed to prepare for scaling action", e)
WaitErr(e) == Wrap("failed to wait for server to be empty", e)
StopErr(e) == Wrap("failed to stop server", e)
ShutdownErr(e) == StopErr(Wrap("hcloud: failed to shutdown server", e))
ResizeErr(e) == Wrap("failed to resize server", e)

\* faulty variant: the error of prepareForScalingAction is dropped
AfterPrepareIgnoreErr(p, e) == Continue(p, "StopServer")

\* DoScale on the result e of prepareForScalingAction (scaler.go 183-189)
AfterPrepare(p, e) ==
  IF e # Nil THEN Return(p, PrepErr(e)) ELSE Continue(p, "StopServer")

\* faulty variant: lastScaledAt is stamped on every exit of the resize stage
AfterResizeStamped(p, e) ==
  /\ Return(p, IF e # Nil THEN ResizeErr(e) ELSE Nil)
  /\ \E t \in Readings : now' = t /\ lastScaledAt' = t

\* DoScale on the result e of ResizeServer (scaler.go 195-202); the clock
\* and lastScaledAt change only through "a.lastScaledAt = time.Now()"
AfterResize(p, e) ==
  IF e # Nil
    THEN Return(p, ResizeErr(e)) /\ UNCHANGED << lastScaledAt, now >>
    ELSE Return(p, Nil) /\ \E t \in Readings : now' = t /\ lastScaledAt' = t

\* a driver's locals once a call has ended
ResetLocals(p) ==
  /\ dir' = [dir EXCEPT ![p] = 0]
  /\ newSize' = [newSize EXCEPT ![p] = ""]
  /\ attempt' = [attempt EXCEPT ![p] = 0]
  /\ h' = [h EXCEPT ![p] = H0]

\* ------------------------------------------------------------------------
\* The interval loop (main.go main, CoreLoop).  "idle" is the select of the
\* main loop: a cancelled context ends the loop there.
\* ------------------------------------------------------------------------
CoreLoop_Start(p) ==
  /\ ~Returning
  /\ p = "loop" /\ pc[p] = "idle" /\ ~ctxDone
  /\ IF scaleLock     \* the in-progress flag is set: skip the cycle
       THEN UNCHANGED << pc, dir, err, h >>
       ELSE \E outs \in [1..Len(Rules) -> QueryOutcomes] :
              LET s == ScanRules(1, outs)
              IN /\ h' = Mark(p, "outs", SubSeq(outs, 1, s.last))
                 /\ CASE s.kind = "met" ->
                           /\ Goto(p, "CanScale")
                           /\ dir' = [dir EXCEPT ![p] = s.action]
                           /\ err' = err
                      [] s.kind = "error" ->
                           /\ Goto(p, "loopRet")
                           /\ err' = [err EXCEPT ![p] = s.err]
                           /\ dir' = dir
                      [] OTHER ->    \* "no scaling action needed"
                           /\ Goto(p, "cycleEnd")
                           /\ UNCHANGED << dir, err >>
  /\ UNCHANGED << newSize, attempt, lockVars, envVars, cacheVars, srvVars >>

CoreLoop_CanScale(p) ==
  /\ ~Returning
  /\ p = "loop" /\ pc[p] = "CanScale" /\ ~mux
  /\ \E o1 \in SizeOutcomes, o2 \in CallOutcomes :
       LET r == getCurrentSize(o1, o2)
           c == CanScale(r, dir[p])
       IN /\ serverTypesCache' = r.cache
          /\ IF c.err # Nil
               THEN /\ Goto(p, "loopRet")
                    /\ err' = [err EXCEPT ![p] = Wrap("failed to check if can scale", c.err)]
             ELSE IF c.ok
               THEN Goto(p, "DoScale") /\ err' = err
             ELSE Goto(p, "cycleEnd") /\ err' = err
  /\ UNCHANGED << dir, newSize, attempt, h, lockVars, envVars, srvVars >>

\* CoreLoop returns to main: "return a.DoScale(ctx, rule.Action)" or
\* "return nil"
CoreLoop_Return(p) ==
  /\ p = "loop" /\ pc[p] \in {"ret", "cycleEnd"}
  /\ IF err[p] = Nil THEN Goto(p, "idle") ELSE Goto(p, "loopRet")
  /\ IF err[p] = Nil
       THEN ResetLocals(p)
       ELSE UNCHANGED << dir, newSize, attempt, h >>
  /\ UNCHANGED << err, lockVars, envVars, cacheVars, srvVars >>

\* main logs the error CoreLoop returned and goes to its select
MainLoop_LogError(p) ==
  /\ p = "loop" /\ pc[p] = "loopRet"
  /\ Goto(p, "idle")
  /\ err' = [err EXCEPT ![p] = Nil]
  /\ ResetLocals(p)
  /\ UNCHANGED << lockVars, envVars, cacheVars, srvVars >>

\* ------------------------------------------------------------------------
\* Cron schedule entries (ScaleSchedule.Run); cron.Stop() on a cancelled
\* context ends the fires
\* ------------------------------------------------------------------------
\* entry i fires: getCurrentSize, then the size guard
Run_Start(p) ==
  /\ ~Returning
  /\ p \in CronProcs /\ pc[p] = "idle" /\ ~ctxDone /\ ~mux
  /\ \E o1 \in SizeOutcomes, o2 \in CallOutcomes, i \in 1..Len(Schedule) :
       LET r == getCurrentSize(o1, o2)
           s == Schedule[i]
       IN /\ serverTypesCache' = r.cache
          /\ h' = Mark(p, "entry", i)
          /\ IF r.err # Nil
               THEN /\ Goto(p, "cycleEnd")
                    /\ err' = [err EXCEPT ![p] = r.err]
                    /\ dir' = dir
             ELSE IF s.IfSize # <<>> /\ ~evaluateIfSize(s.IfSize, r.index)
               THEN Goto(p, "cycleEnd") /\ UNCHANGED << dir, err >>
             ELSE /\ Goto(p, "guarded")
                  /\ dir' = [dir EXCEPT ![p] = s.Action]
                  /\ err' = err
  /\ UNCHANGED << newSize, attempt, lockVars, envVars, srvVars >>

\* the guard let the fire through: Run goes on to CanScale
Run_Proceed(p) ==
  /\ p \in CronProcs /\ pc[p] = "guarded"
  /\ Goto(p, "CanScale")
  /\ h' = Mark(p, "entry", 0)
  /\ UNCHANGED << dir, err, newSize, attempt, lockVars, envVars, cacheVars,
                  srvVars >>

Run_CanScale(p) ==
  /\ ~Returning
  /\ p \in CronProcs /\ pc[p] = "CanScale" /\ ~mux
  /\ \E o1 \in SizeOutcomes, o2 \in CallOutcomes :
       LET r == getCurrentSize(o1, o2)
           c == CanScale(r, dir[p])
       IN /\ serverTypesCache' = r.cache
          /\ IF c.err # Nil
               THEN Goto(p, "cycleEnd") /\ err' = [err EXCEPT ![p] = c.err]
             ELSE IF c.ok
               THEN Goto(p, "DoScale") /\ err' = err
             ELSE Goto(p, "cycleEnd") /\ err' = err
  /\ UNCHANGED << dir, newSize, attempt, h, lockVars, envVars, srvVars >>

\* Run ends: after DoScale, whose error it logs, or on an earlier return
Run_Return(p) ==
  /\ p \in CronProcs /\ pc[p] \in {"ret", "cycleEnd"}
  /\ Goto(p, "idle")
  /\ err' = [err EXCEPT ![p] = Nil]
  /\ ResetLocals(p)
  /\ UNCHANGED << lockVars, envVars, cacheVars, srvVars >>

\* ------------------------------------------------------------------------
\* Autoscaler.DoScale: lock, cooldown, size resolution
\* ------------------------------------------------------------------------
DoScale_TryLock(p) ==
  /\ ~Returning
  /\ pc[p] = "DoScale"
  /\ h' = [h EXCEPT ![p] = [H0 EXCEPT !.lsaEntry = lastScaledAt,
                                      !.outs = h[p].outs]]
  /\ IF TryLock(scaleLock)
       THEN /\ scaleLock' = TRUE
            /\ Goto(p, "cooldown")
            /\ err' = err
       ELSE /\ scaleLock' = scaleLock
            /\ Goto(p, "ret")
            /\ err' = [err EXCEPT ![p] = ErrInProgress]
  /\ UNCHANGED << dir, newSize, attempt, lastScaledAt, envVars, cacheVars, srvVars >>

\* the cooldown gate, on the clock reading t
DoScale_Cooldown(p) ==
  /\ ~Returning
  /\ pc[p] = "cooldown"
  /\ \E t \in Readings :
       /\ now' = t
       /\ IF TooSoon(lastScaledAt, MinTimeBetweenActions, t)
            THEN Return(p, ErrTooSoon)
            ELSE Continue(p, "resolve")
  /\ UNCHANGED << dir, newSize, attempt, h, lastScaledAt, ctxDone, cacheVars,
                  srvVars >>

DoScale_Resolve(p) ==
  /\ ~Returning
  /\ pc[p] = "resolve" /\ ~mux
  /\ \E o1 \in SizeOutcomes, o2 \in CallOutcomes :
       LET r == getCurrentSize(o1, o2)
       IN /\ serverTypesCache' = r.cache
          /\ IF r.err # Nil
               THEN /\ Return(p, Wrap("failed to get current size", r.err))
                    /\ newSize' = newSize
               ELSE /\ Continue(p, "dial")
                    /\ newSize' = [newSize EXCEPT
                                     ![p] = getNewSize(r.index, dir[p], r.sizes).size]
  /\ UNCHANGED << dir, attempt, h, lastScaledAt, envVars, srvVars >>

\* ------------------------------------------------------------------------
\* Autoscaler.prepareForScalingAction and waitForServerToBeEmpty
\* ------------------------------------------------------------------------
\* net.DialRCON
prepare_Dial(p) ==
  /\ ~Returning
  /\ pc[p] = "dial"
  /\ \/ AfterPrepare(p, Wrap("failed to dial RCON", RconErr))
     \/ Continue(p, "notify")
  /\ UNCHANGED << dir, newSize, attempt, h, lastScaledAt, envVars, cacheVars,
                  srvVars >>

\* rcon.Cmd("say ..." or "tellraw @a ...")
prepare_Notify(p) ==
  /\ ~Returning
  /\ pc[p] = "notify"
  /\ h' = Bump(p, "notify")
  /\ \/ AfterPrepare(p, Wrap("failed to send tellraw command", RconErr))
     \/ Continue(p, "notifyResp")
  /\ UNCHANGED << dir, newSize, attempt, lastScaledAt, envVars, cacheVars, srvVars >>

\* rcon.Resp() of the broadcast; waitForServerToBeEmpty starts
prepare_NotifyResp(p) ==
  /\ ~Returning
  /\ pc[p] = "notifyResp"
  /\ \/ AfterPrepare(p, Wrap("failed to read response from server", RconErr))
     \/ Continue(p, "list")
  /\ UNCHANGED << dir, newSize, attempt, h, lastScaledAt, envVars, cacheVars,
                  srvVars >>

\* one more occupancy poll, counted up to MaxLists
OneMoreList(n) == IF n < MaxLists THEN n + 1 ELSE MaxLists

\* the drain loop is blocked in its select: a poll found players online
InDrainSelect(p) == pc[p] = "list" /\ h[p].lists >= 1

\* one iteration of the drain loop, entered at the start or when the 5 s
\* timer of the select fires: Cmd("list"), Resp, parse
wait_List(p) ==
  /\ ~Returning
  /\ pc[p] = "list"
  /\ InDrainSelect(p) => ~ctxDone
  /\ \/ /\ AfterPrepare(p, WaitErr(Wrap("failed to send list command", RconErr)))
        /\ h' = [h EXCEPT ![p].lists = OneMoreList(@), ![p].resp = <<>>]
     \/ /\ AfterPrepare(p, WaitErr(Wrap("failed to read response", RconErr)))
        /\ h' = [h EXCEPT ![p].lists = OneMoreList(@), ![p].resp = <<>>]
     \/ \E resp \in ListResponses :
          LET v == ParseList(resp)
              n == OneMoreList(h[p].lists)
          IN CASE v = "mismatch" ->
                    /\ AfterPrepare(p, WaitErr(<<"list response does not match expected format">>))
                    /\ h' = [h EXCEPT ![p].lists = n, ![p].resp = resp]
               [] v = "empty" ->
                    /\ Continue(p, "stop")
                    /\ h' = [h EXCEPT ![p].lists = n, ![p].zero = TRUE,
                                      ![p].resp = <<>>]
               [] OTHER ->
                    /\ Continue(p, "list")
                    /\ h' = [h EXCEPT ![p].lists = n, ![p].resp = resp]
  /\ UNCHANGED << dir, newSize, attempt, lastScaledAt, envVars, cacheVars, srvVars >>

\* the select of the drain loop takes ctx.Done()
wait_Cancelled(p) ==
  /\ ~Returning
  /\ InDrainSelect(p) /\ ctxDone
  /\ AfterPrepare(p, WaitErr(CtxErr))
  /\ h' = Mark(p, "cancelled", TRUE)
  /\ UNCHANGED << dir, newSize, attempt, lastScaledAt, envVars, cacheVars,
                  srvVars >>

\* faulty variant: at the deadline the drain gives up waiting and goes on
wait_TimeoutGoesOn(p) ==
  /\ ~Returning
  /\ InDrainSelect(p)
  /\ Continue(p, "stop")
  /\ UNCHANGED << dir, newSize, attempt, h, lastScaledAt, envVars, cacheVars,
                  srvVars >>

\* the select of the drain loop takes the deadline: the timeout has elapsed
wait_Timeout(p) ==
  /\ ~Returning
  /\ InDrainSelect(p)
  /\ AfterPrepare(p, WaitErr(<<"server not empty after timeout">>))
  /\ UNCHANGED << dir, newSize, attempt, h, lastScaledAt, envVars, cacheVars,
                  srvVars >>

\* rcon.Cmd("stop")
prepare_Stop(p) ==
  /\ ~Returning
  /\ pc[p] = "stop"
  /\ \/ /\ AfterPrepare(p, Wrap("failed to stop server", RconErr))
        /\ h' = Bump(p, "stopCmd")
     \/ /\ Continue(p, "stopResp")
        /\ h' = [h EXCEPT ![p].stopCmd = @ + 1, ![p].stopSent = TRUE]
  /\ UNCHANGED << dir, newSize, attempt, lastScaledAt, envVars, cacheVars, srvVars >>

\* rcon.Resp() of the stop command; prepareForScalingAction returns nil
prepare_StopResp(p) ==
  /\ ~Returning
  /\ pc[p] = "stopResp"
  /\ \/ /\ AfterPrepare(p, Wrap("failed to read response from server", RconErr))
        /\ h' = h
     \/ /\ AfterPrepare(p, Nil)
        /\ h' = Mark(p, "drained", TRUE)
  /\ UNCHANGED << dir, newSize, attempt, lastScaledAt, envVars, cacheVars, srvVars >>

\* ------------------------------------------------------------------------
\* HCloudAutoscaler.StopServer
\* ------------------------------------------------------------------------
ActionOutcomes == IF ctxDone THEN {"apiErr"} ELSE {"apiErr", "success", "running", "error"}

\* the provider accepts a shutdown request
AfterShutdown(st) == IF st = "running" THEN "stopping" ELSE st

\* a.mux.Lock(); a.api.Server.Shutdown
StopServer_Shutdown(p) ==
  /\ ~Returning
  /\ pc[p] = "StopServer" /\ ~mux
  /\ \E o \in ActionOutcomes \ {"error"} :
       CASE o = "apiErr" ->
              /\ Return(p, ShutdownErr(ApiFailure(ctxDone)))
              /\ h' = Bump(p, "shutdown")
              /\ UNCHANGED << mux, serverStatus, attempt >>
         [] o = "success" ->    \* action.Status == ActionStatusSuccess: return nil
              /\ Continue(p, "ResizeServer")
              /\ h' = [h EXCEPT ![p].shutdown = @ + 1, ![p].stopped = TRUE]
              /\ serverStatus' = AfterShutdown(serverStatus)
              /\ UNCHANGED << mux, attempt >>
         [] OTHER ->
              /\ Continue(p, "stopWait")
              /\ h' = [h EXCEPT ![p].shutdown = @ + 1, ![p].polls = 0]
              /\ serverStatus' = AfterShutdown(serverStatus)
              /\ mux' = TRUE
              /\ attempt' = [attempt EXCEPT ![p] = 0]
  /\ UNCHANGED << dir, newSize, lastScaledAt, envVars, cacheVars, serverType >>

\* the status loop is blocked in its select: a status read found the server on
InStatusSelect(p) == pc[p] = "stopPoll" /\ h[p].statusRead

\* one iteration of the status loop, entered after waitForAction or when the
\* 5 s timer fires: a.api.Server.GetByID, a.server.Status == ServerStatusOff
StopServer_StatusPoll(p) ==
  /\ ~Returning
  /\ pc[p] = "stopPoll"
  /\ InStatusSelect(p) => ~ctxDone
  /\ \E o \in CallOutcomes :
       IF o = "serverErr"
         THEN /\ Return(p, StopErr(Wrap("hcloud: failed to get server by ID",
                                         ApiFailure(ctxDone))))
              /\ mux' = FALSE
              /\ h' = Mark(p, "tick", FALSE)
       ELSE IF serverStatus = "off"
         THEN /\ Continue(p, "ResizeServer")
              /\ mux' = FALSE
              /\ h' = [h EXCEPT ![p].sawOff = TRUE, ![p].stopped = TRUE,
                                ![p].statusRead = TRUE, ![p].tick = FALSE]
       ELSE /\ Continue(p, "stopPoll")     \* time.After(5 * time.Second)
            /\ mux' = mux
            /\ h' = [h EXCEPT ![p].statusRead = TRUE, ![p].tick = ~@]
  /\ UNCHANGED << dir, newSize, attempt, lastScaledAt, envVars, cacheVars,
                  serverType, serverStatus >>

\* the select of the status loop takes ctx.Done()
StopServer_Cancelled(p) ==
  /\ ~Returning
  /\ InStatusSelect(p) /\ ctxDone
  /\ Return(p, StopErr(CtxErr))
  /\ mux' = FALSE
  /\ h' = [h EXCEPT ![p].cancelled = TRUE, ![p].tick = FALSE]
  /\ UNCHANGED << dir, newSize, attempt, lastScaledAt, envVars, cacheVars,
                  serverType, serverStatus >>

\* ------------------------------------------------------------------------
\* HCloudAutoscaler.waitForAction, called by StopServer ("stopWait") and by
\* resizeServerInner ("resizeWait")
\* ------------------------------------------------------------------------
\* the loop's exit test
OutOfAttempts(n) == n > MaxAttempts

TimeoutErr == <<"hcloud: action did not complete in time">>

\* faulty variant: ResizeServer hands the error back without recovery
ResizeInnerDoneNoRecovery(p, e) ==
  /\ AfterResize(p, e)
  /\ mux' = FALSE
  /\ serverType' = IF e = Nil THEN newSize[p] ELSE serverType

\* ResizeServer on the result e of resizeServerInner (hcloud.go 178-188):
\* an error starts the recovery, success ends ResizeServer and DoScale
ResizeInnerDone(p, e) ==
  IF e # Nil
    THEN /\ Continue(p, "Poweron")
         /\ UNCHANGED << mux, lastScaledAt, now, serverType >>
    ELSE /\ AfterResize(p, Nil)
         /\ mux' = FALSE
         /\ serverType' = newSize[p]

\* waitForAction returns e to its caller
WaitDone(p, e) ==
  IF pc[p] = "stopWait"
    THEN IF e # Nil
           THEN /\ Return(p, ShutdownErr(e))
                /\ mux' = FALSE
                /\ UNCHANGED << lastScaledAt, now, serverType >>
           ELSE /\ Continue(p, "stopPoll")
                /\ UNCHANGED << mux, lastScaledAt, now, serverType >>
    ELSE ResizeInnerDone(p, e)

\* the error of resizeServerInner, kept for the recovery branch
Inner(p, e) == IF pc[p] = "resizeWait" THEN e ELSE h[p].innerErr

\* waitForAction is blocked in its select: a poll found the action running
InActionSelect(p) == pc[p] \in {"stopWait", "resizeWait"} /\ attempt[p] >= 1

\* one iteration of waitForAction, entered at the start or when the 5 s
\* timer of the select fires.  The attempt counter is a local of the call;
\* polls counts the Action.GetByID requests of the wait in progress and is
\* kept once that wait has timed out.
waitForAction_Poll(p) ==
  /\ ~Returning
  /\ pc[p] \in {"stopWait", "resizeWait"}
  /\ InActionSelect(p) => ~ctxDone
  /\ IF OutOfAttempts(attempt[p])
       THEN /\ WaitDone(p, TimeoutErr)
            /\ attempt' = [attempt EXCEPT ![p] = 0]
            /\ h' = [h EXCEPT ![p].timedOut = TRUE, ![p].innerErr = Inner(p, TimeoutErr)]
       ELSE \E o \in ActionOutcomes :
              LET e == CASE o = "apiErr" ->
                              Wrap("hcloud: failed to get action", ApiFailure(ctxDone))
                         [] o = "error" ->
                              <<"hcloud: action failed", "provider action error">>
                         [] OTHER -> Nil
              IN IF o = "running"
                   THEN /\ Continue(p, pc[p])
                        /\ attempt' = [attempt EXCEPT ![p] = @ + 1]
                        /\ h' = Bump(p, "polls")
                        /\ UNCHANGED << mux, lastScaledAt, now, serverType >>
                   ELSE /\ WaitDone(p, e)
                        /\ attempt' = [attempt EXCEPT ![p] = 0]
                        /\ h' = [h EXCEPT ![p].polls = 0, ![p].innerErr = Inner(p, e)]
  /\ UNCHANGED << dir, newSize, ctxDone, cacheVars, serverStatus >>

\* faulty variant: the select takes ctx.Done() and the wait reports success
waitForAction_CancelledAsSuccess(p) ==
  /\ ~Returning
  /\ InActionSelect(p) /\ ctxDone
  /\ WaitDone(p, Nil)
  /\ attempt' = [attempt EXCEPT ![p] = 0]
  /\ h' = [h EXCEPT ![p].polls = 0, ![p].innerErr = Inner(p, Nil),
                    ![p].cancelled = TRUE]
  /\ UNCHANGED << dir, newSize, ctxDone, cacheVars, serverStatus >>

\* the select of waitForAction takes ctx.Done()
waitForAction_Cancelled(p) ==
  /\ ~Returning
  /\ InActionSelect(p) /\ ctxDone
  /\ WaitDone(p, CtxErr)
  /\ attempt' = [attempt EXCEPT ![p] = 0]
  /\ h' = [h EXCEPT ![p].polls = 0, ![p].innerErr = Inner(p, CtxErr),
                    ![p].cancelled = TRUE]
  /\ UNCHANGED << dir, newSize, ctxDone, cacheVars, serverStatus >>

\* ------------------------------------------------------------------------
\* HCloudAutoscaler.ResizeServer and resizeServerInner
\* ------------------------------------------------------------------------
\* a.mux.Lock(); updateServerTypesUNLOCKED; look the profile up in the cache
ResizeServer_Lookup(p) ==
  /\ ~Returning
  /\ pc[p] = "ResizeServer" /\ ~mux
  /\ \E o \in TypesOutcomes :
       LET u == updateServerTypes(o)
       IN /\ serverTypesCache' = u.cache
          /\ IF u.err # Nil
               THEN AfterResize(p, u.err) /\ mux' = mux
             ELSE IF newSize[p] \notin u.cache
               THEN /\ AfterResize(p, <<"hcloud: server type not found">>)
                    /\ mux' = mux
             ELSE /\ Continue(p, "ChangeType")
                  /\ mux' = TRUE
                  /\ UNCHANGED << lastScaledAt, now >>
  /\ UNCHANGED << dir, newSize, attempt, h, ctxDone, serverType, serverStatus >>

\* resizeServerInner: a.api.Server.ChangeType
resizeServerInner_ChangeType(p) ==
  /\ ~Returning
  /\ pc[p] = "ChangeType"
  /\ \E o \in ActionOutcomes \ {"error"} :
       LET hh == [h EXCEPT ![p].changeType = @ + 1, ![p].target = newSize[p],
                           ![p].offAtResize = (serverStatus = "off"),
                           ![p].polls = 0]
           e == Wrap("hcloud: failed to resize server", ApiFailure(ctxDone))
       IN CASE o = "apiErr" ->
                 /\ ResizeInnerDone(p, e)
                 /\ h' = [hh EXCEPT ![p].innerErr = e]
                 /\ attempt' = attempt
            [] o = "success" ->    \* action.Status == ActionStatusSuccess
                 /\ ResizeInnerDone(p, Nil)
                 /\ h' = hh
                 /\ attempt' = attempt
            [] OTHER ->
                 /\ Continue(p, "resizeWait")
                 /\ h' = hh
                 /\ attempt' = [attempt EXCEPT ![p] = 0]
                 /\ UNCHANGED << mux, lastScaledAt, now, serverType >>
  /\ UNCHANGED << dir, newSize, ctxDone, cacheVars, serverStatus >>

\* faulty variant: the result of the recovery Poweron replaces the resize error
RecoveryResultOverwrites(inner, rec) ==
  IF rec # Nil THEN Wrap("hcloud: failed to power on server", rec) ELSE Nil

\* what ResizeServer returns once the recovery Poweron has ended with rec,
\* after resizeServerInner failed with inner
RecoveryResult(inner, rec) ==
  IF rec # Nil THEN Wrap("hcloud: failed to power on server", rec) ELSE inner

\* the recovery branch: a.api.Server.Poweron
ResizeServer_Poweron(p) ==
  /\ ~Returning
  /\ pc[p] = "Poweron"
  /\ \E o \in CallOutcomes :
       LET rec == IF o = "serverErr" THEN ApiFailure(ctxDone) ELSE Nil
       IN /\ h' = [h EXCEPT ![p].poweron = @ + 1, ![p].recErr = rec]
          /\ AfterResize(p, RecoveryResult(h[p].innerErr, rec))
          /\ serverStatus' = IF rec = Nil THEN "running" ELSE serverStatus
  /\ mux' = FALSE
  /\ UNCHANGED << dir, newSize, attempt, ctxDone, cacheVars, serverType >>

\* ------------------------------------------------------------------------
\* Environment
\* ------------------------------------------------------------------------
\* os.Interrupt cancels the context
Cancel ==
  /\ ~Returning
  /\ ~ctxDone
  /\ ctxDone' = TRUE
  /\ UNCHANGED << procVars, lockVars, now, cacheVars, srvVars >>

\* the instance finishes shutting down
ServerPowersOff ==
  /\ ~Returning
  /\ serverStatus = "stopping"
  /\ serverStatus' = "off"
  /\ UNCHANGED << procVars, lockVars, envVars, cacheVars, mux, serverType >>

\* ------------------------------------------------------------------------
\* Next-state relation
\* ------------------------------------------------------------------------
HandOver(p) ==
  \/ CoreLoop_Return(p) \/ MainLoop_LogError(p)
  \/ Run_Proceed(p) \/ Run_Return(p)

Trigger(p) ==
  \/ CoreLoop_Start(p) \/ CoreLoop_CanScale(p)
  \/ Run_Start(p) \/ Run_CanScale(p)

DoScale(p) ==
  \/ DoScale_TryLock(p) \/ DoScale_Cooldown(p) \/ DoScale_Resolve(p)
  \/ prepare_Dial(p) \/ prepare_Notify(p) \/ prepare_NotifyResp(p)
  \/ wait_List(p) \/ wait_Cancelled(p) \/ wait_Timeout(p)
  \/ prepare_Stop(p) \/ prepare_StopResp(p)
  \/ StopServer_Shutdown(p) \/ StopServer_StatusPoll(p) \/ StopServer_Cancelled(p)
  \/ waitForAction_Poll(p) \/ waitForAction_Cancelled(p)
  \/ ResizeServer_Lookup(p) \/ resizeServerInner_ChangeType(p)
  \/ ResizeServer_Poweron(p)

Environment == Cancel \/ ServerPowersOff

Next ==
  \/ \E p \in Procs : HandOver(p) \/ Trigger(p) \/ DoScale(p)
  \/ Environment

Spec == Init /\ [][Next]_vars

\* the goroutines of the drivers keep running and their timers fire: a step
\* of a call or of its return to the driver that stays possible is taken.
\* Nothing is assumed of the triggers, of cancellation or of the provider.
FairSpec == Spec /\ \A p \in Procs : WF_vars(HandOver(p) \/ DoScale(p))

\* ------------------------------------------------------------------------
\* getNewSize on its own: the cache, the server's type and the action are
\* drawn at the start; a driver applies getNewSize to the current index and
\* then, from the index it got, with the opposite action
\* ------------------------------------------------------------------------
Moves == (0 - MaxMove)..MaxMove

MoveInit ==
  /\ pc = [p \in Procs |-> "idle"]
  /\ dir \in [Procs -> Moves]
  /\ err = [p \in Procs |-> Nil]
  /\ newSize = [p \in Procs |-> ""]
  /\ attempt = [p \in Procs |-> 0]
  /\ h = [p \in Procs |-> H0]
  /\ scaleLock = FALSE
  /\ lastScaledAt = ZeroTime
  /\ now = StartTime
  /\ ctxDone = FALSE
  /\ mux = FALSE
  /\ serverTypesCache \in SUBSET SizeNames
  /\ serverType \in serverTypesCache \cap AllowedSizes
  /\ serverStatus = "running"

\* _, newSize := a.getNewSize(currentIndex, action, sizes)
getNewSize_There(p) ==
  /\ pc[p] = "idle"
  /\ LET r == getCurrentSize("fresh", "ok")
     IN h' = Mark(p, "target", getNewSize(r.index, dir[p], r.sizes).size)
  /\ Goto(p, "moved")
  /\ UNCHANGED << dir, err, newSize, attempt, lockVars, envVars, cacheVars,
                  srvVars >>

\* getNewSize from the size that was reached, with the opposite action
getNewSize_Back(p) ==
  /\ pc[p] = "moved"
  /\ LET r == getCurrentSize("fresh", "ok")
         at == IndexOf(r.sizes, h[p].target)
     IN newSize' = [newSize EXCEPT
                      ![p] = getNewSize(at, 0 - dir[p], r.sizes).size]
  /\ Goto(p, "back")
  /\ UNCHANGED << dir, err, attempt, h, lockVars, envVars, cacheVars, srvVars >>

MoveNext == \E p \in Procs : getNewSize_There(p) \/ getNewSize_Back(p)

MoveSpec == MoveInit /\ [][MoveNext]_vars

\* ------------------------------------------------------------------------
\* evaluateIfSize on its own: the cache and the server's type are drawn at
\* the start; a fire tests one guard "<op> <n>" against the current index
\* and ends, let through ("guarded") or refused ("cycleEnd")
\* ------------------------------------------------------------------------
GuardOps == << <<"=", "=">>, <<"=">>, <<"<">>, <<">">>, <<"<", "=">>, <<">", "=">> >>
DigitChars == <<"0", "1", "2", "3", "4", "5", "6", "7", "8", "9">>

\* the guards tested: every operator with every operand 0..MaxOperand
GuardCount == Len(GuardOps) * (MaxOperand + 1)
GuardOp(k) == GuardOps[((k - 1) \div (MaxOperand + 1)) + 1]
GuardOperand(k) == (k - 1) % (MaxOperand + 1)
GuardText(k) == GuardOp(k) \o <<" ", DigitChars[GuardOperand(k) + 1]>>

GuardInit == MoveInit /\ dir = [p \in Procs |-> 0]

\* if !s.evaluateIfSize(current) { return }
evaluateIfSize_Test(p) ==
  /\ pc[p] = "idle"
  /\ \E k \in 1..GuardCount :
       LET r == getCurrentSize("fresh", "ok")
       IN /\ h' = Mark(p, "entry", k)
          /\ IF evaluateIfSize(GuardText(k), r.index)
               THEN Goto(p, "guarded")
               ELSE Goto(p, "cycleEnd")
  /\ UNCHANGED << dir, err, newSize, attempt, lockVars, envVars, cacheVars,
                  srvVars >>

\* the fire is over; the next one may test another guard
evaluateIfSize_Done(p) ==
  /\ pc[p] \in {"guarded", "cycleEnd"}
  /\ Goto(p, "idle")
  /\ h' = Mark(p, "entry", 0)
  /\ UNCHANGED << dir, err, newSize, attempt, lockVars, envVars, cacheVars,
                  srvVars >>

GuardNext == \E p \in Procs : evaluateIfSize_Test(p) \/ evaluateIfSize_Done(p)

GuardSpec == GuardInit /\ [][GuardNext]_vars

\* ------------------------------------------------------------------------
\* Properties
\* ------------------------------------------------------------------------
\* positions of a DoScale call that holds the exclusivity lock
PastLock == {"cooldown", "resolve", "dial", "notify", "notifyResp", "list", "stop",
             "stopResp", "StopServer", "stopWait", "stopPoll", "ResizeServer",
             "ChangeType", "resizeWait", "Poweron"}
InFlight(p) == pc[p] \in PastLock

\* DoScale of p has just returned
Returned(p) == pc[p] = "ret"
Rejected(p) == Returned(p) /\ err[p] = ErrInProgress

\* drain commands and provider stop/resize/power-on calls issued by a call
Issued(hp) ==
  hp.notify + hp.lists + hp.stopCmd + hp.shutdown + hp.changeType + hp.poweron

\* every message of the chain inner appears in the chain e
Carries(e, inner) == \A i \in 1..Len(inner) : Has(e, inner[i])

\* C1: at most one DoScale call is past the lock acquisition at any time; a
\* call that arrives while another is in flight returns "scaling already in
\* progress" at once, having issued no drain command and no provider
\* stop/resize/power-on call, and a call that arrives while none is in flight
\* proceeds.
C1_Exclusivity ==
  /\ [](/\ Cardinality({p \in Procs : InFlight(p)}) <= 1
        /\ \A p \in Procs : Rejected(p) => Issued(h[p]) = 0)
  /\ [][\A p \in Procs :
          pc[p] = "DoScale" /\ pc'[p] # "DoScale" =>
            IF \E q \in Procs \ {p} : InFlight(q)
              THEN pc'[p] = "ret" /\ err'[p] = ErrInProgress
              ELSE pc'[p] = "cooldown"]_vars

C1_Witness ==
  \E p, q \in Procs :
    p # q /\ InFlight(q) /\ h[q].notify = 1 /\ Rejected(p)

\* C2: whenever a DoScale call that held the lock has returned, with or
\* without error, the lock is free; the lock is held only while a call is in
\* flight, so a call started after the return is not rejected.
C2_LockReleased ==
  /\ \A p \in Procs : Returned(p) /\ ~Rejected(p) => ~scaleLock
  /\ scaleLock => \E p \in Procs : InFlight(p)

C2_Witness ==
  \E p \in Procs :
    Returned(p) /\ h[p].poweron = 1 /\ h[p].recErr # Nil /\ ~scaleLock

\* C3: a DoScale call that returns an error after the provider Shutdown call
\* was issued has issued a Poweron call before it returned.
C3_PowerOnAfterStop ==
  \A p \in Procs :
    Returned(p) /\ err[p] # Nil /\ h[p].shutdown >= 1 => h[p].poweron >= 1

\* C4: a ResizeServer whose resizeServerInner failed issues exactly one
\* Poweron call, and no Poweron call is issued when the resize succeeds.
C4_OneRecovery ==
  \A p \in Procs :
    /\ h[p].poweron <= 1
    /\ h[p].poweron = 1 => h[p].innerErr # Nil /\ h[p].changeType = 1
    /\ Returned(p) /\ h[p].innerErr # Nil => h[p].poweron = 1
    /\ Returned(p) /\ err[p] = Nil => h[p].poweron = 0

C4_Witness ==
  \E p \in Procs :
    Returned(p) /\ h[p].timedOut /\ h[p].changeType = 1 /\ h[p].poweron = 1

\* C5: when the resize failed and the recovery Poweron failed as well, the
\* error DoScale returns carries both the resize error and the recovery
\* error.
C5_BothErrors ==
  \A p \in Procs :
    Returned(p) /\ h[p].innerErr # Nil /\ h[p].recErr # Nil =>
      /\ Carries(err[p], h[p].recErr)
      /\ Carries(err[p], h[p].innerErr)

\* C6: waitForAction issues at most 24 polls, and when it times out it has
\* issued exactly 24.
C6_TwentyFourPolls ==
  \A p \in Procs :
    /\ h[p].polls <= 24
    /\ h[p].timedOut => h[p].polls = 24

\* C7: a DoScale call that has the lock and reads the clock at now returns
\* "scaling too soon", with the lock released and nothing issued, when
\* now < lastScaledAt + MinTimeBetweenActions, and goes on to the size
\* resolution otherwise; no broadcast of a drain goes out earlier than
\* MinTimeBetweenActions after lastScaledAt.
C7_CooldownGate ==
  [][\A p \in Procs :
       /\ pc[p] = "cooldown" /\ pc'[p] # "cooldown" =>
            IF now' < lastScaledAt + MinTimeBetweenActions
              THEN /\ pc'[p] = "ret" /\ err'[p] = ErrTooSoon
                   /\ ~scaleLock' /\ Issued(h'[p]) = 0
              ELSE pc'[p] = "resolve" /\ scaleLock'
       /\ h'[p].notify > h[p].notify =>
            now' >= lastScaledAt' + MinTimeBetweenActions]_vars

C7_Witness ==
  \E p \in Procs :
    Returned(p) /\ err[p] = ErrTooSoon /\ lastScaledAt # ZeroTime

\* C8: lastScaledAt changes only in the step in which a DoScale call returns
\* nil, and then to the time read at that moment; when a call returns an
\* error, lastScaledAt is what it was when the call started.
C8_LastScaledAt ==
  /\ [](\A p \in Procs :
          Returned(p) /\ err[p] # Nil => lastScaledAt = h[p].lsaEntry)
  /\ [][lastScaledAt' # lastScaledAt =>
          \E p \in Procs : /\ ~Returned(p) /\ pc'[p] = "ret" /\ err'[p] = Nil
                            /\ lastScaledAt' = now']_vars

C8_Witness ==
  \E p \in Procs :
    /\ Returned(p) /\ err[p] # Nil /\ h[p].changeType = 1
    /\ lastScaledAt # ZeroTime

\* C9: within one DoScale call the occupancy polls follow the broadcast, the
\* stop command follows a poll that reported zero players, the provider
\* Shutdown follows the completed drain, the provider ChangeType follows a
\* StopServer that returned nil, and a call whose drain failed issues no
\* provider call.
C9_StageOrder ==
  \A p \in Procs :
    /\ h[p].lists >= 1 => h[p].notify = 1
    /\ h[p].stopCmd >= 1 => h[p].zero /\ h[p].lists >= 1
    /\ h[p].drained => h[p].stopSent /\ h[p].stopCmd = 1
    /\ h[p].shutdown >= 1 => h[p].drained
    /\ h[p].changeType >= 1 => h[p].stopped /\ h[p].shutdown = 1
    /\ h[p].poweron >= 1 => h[p].changeType = 1
    /\ Returned(p) /\ ~h[p].drained =>
         h[p].shutdown = 0 /\ h[p].changeType = 0 /\ h[p].poweron = 0

C9_Witness ==
  \E p \in Procs :
    /\ Returned(p) /\ err[p] = Nil
    /\ h[p].notify = 1 /\ h[p].zero /\ h[p].drained /\ h[p].stopped
    /\ h[p].changeType = 1

\* C10: a DoScale call that sent the stop command to the managed process
\* has attempted a provider ChangeType call by the time it returns.
C10_ResizeAfterStop ==
  \A p \in Procs : Returned(p) /\ h[p].stopSent => h[p].changeType >= 1


\* the size ladder a cache gives: its allowed types, cheapest first
PriceOrder == <<"small", "medium", "large", "xl">>
Ladder(cache) == SelectSeq(PriceOrder, LAMBDA s : s \in cache /\ s \in AllowedSizes)

\* clamp(n, 0, len - 1)
Clamp(n, len) == IF n < 0 THEN 0 ELSE IF n >= len THEN len - 1 ELSE n

\* C11: a DoScale call that has started the drain has resolved a target size
\* different from the current size, as CanScale requires before it answers
\* true.
C11_Revalidates ==
  \A p \in Procs :
    InFlight(p) /\ h[p].notify >= 1 => newSize[p] # serverType


\* C12: when the CanScale of a trigger reads the ladder without error and
\* the clamped target index equals the current index, the trigger goes to the
\* end of its cycle, with no error, nothing issued and the lock and
\* lastScaledAt untouched, and returns to idle from there; it goes on to
\* DoScale only when the target differs.
C12_NoScaleAtLadderEnd ==
  [][\A p \in Procs :
       /\ pc[p] = "CanScale" /\ pc'[p] # "CanScale" /\ err'[p] = Nil =>
            LET L == Ladder(serverTypesCache')
                i == IndexOf(L, serverType)
            IN /\ i # -1
               /\ IF Clamp(i + dir[p], Len(L)) = i
                    THEN /\ pc'[p] = "cycleEnd"
                         /\ Issued(h'[p]) = 0
                         /\ UNCHANGED << scaleLock, lastScaledAt >>
                    ELSE pc'[p] = "DoScale"
       /\ pc[p] = "cycleEnd" /\ err[p] = Nil =>
            /\ pc'[p] = "idle" /\ err'[p] = Nil
            /\ UNCHANGED << scaleLock, lastScaledAt >>]_vars

C12_Witness ==
  \E p \in Procs :
    /\ pc[p] = "cycleEnd" /\ err[p] = Nil /\ h[p].entry = 0
    /\ dir[p] = -1 /\ serverType = "small"


\* C13: the target a DoScale call resolves is the ladder entry at the clamped
\* index current + action; a call that has returned nil has issued exactly
\* one ChangeType, for that target, the server has the target type, the lock
\* is free, no call is in flight, lastScaledAt is the time just read, and the
\* driver goes back to idle.
C13_SuccessfulScale ==
  /\ [](\A p \in Procs :
          Returned(p) /\ err[p] = Nil =>
            /\ h[p].changeType = 1 /\ h[p].target = newSize[p]
            /\ serverType = newSize[p]
            /\ ~scaleLock /\ \A q \in Procs : ~InFlight(q)
            /\ lastScaledAt = now /\ lastScaledAt >= h[p].lsaEntry)
  /\ [][\A p \in Procs :
          /\ pc[p] = "resolve" /\ pc'[p] = "dial" =>
               LET L == Ladder(serverTypesCache')
                   i == IndexOf(L, serverType)
               IN i # -1 /\ newSize'[p] = L[Clamp(i + dir[p], Len(L)) + 1]
          /\ Returned(p) /\ err[p] = Nil => pc'[p] = "idle"]_vars

C13_Witness ==
  \E p \in Procs :
    /\ Returned(p) /\ err[p] = Nil /\ dir[p] = -1
    /\ h[p].changeType = 1 /\ h[p].target = "small" /\ serverType = "small"


\* C14: every DoScale call that has acquired the lock eventually returns.
C14_ExecuteReturns ==
  \A p \in Procs : InFlight(p) ~> Returned(p)


\* C15: StopServer has returned nil only after one of its status reads found
\* the server off, and ChangeType is issued only while the server is off.
C15_OffConfirmed ==
  \A p \in Procs :
    /\ h[p].stopped => h[p].sawOff
    /\ h[p].changeType >= 1 => h[p].offAtResize


\* C16: once the context is cancelled, a call blocked in the select of the
\* drain loop, of the status loop or of waitForAction makes no further poll;
\* unless the drain deadline ends the wait, its next step takes ctx.Done()
\* and the wait returns the cancellation error.  A call whose wait was
\* cancelled returns an error that carries "context canceled", and
\* lastScaledAt is what it was when the call started.
C16_Cancellation ==
  /\ [](\A p \in Procs :
          Returned(p) /\ h[p].cancelled =>
            /\ err[p] # Nil /\ Has(err[p], "context canceled")
            /\ lastScaledAt = h[p].lsaEntry)
  /\ [][\A p \in Procs :
          /\ ctxDone
          /\ InDrainSelect(p) \/ InStatusSelect(p) \/ InActionSelect(p)
          /\ pc'[p] # pc[p] \/ h'[p] # h[p]
          => /\ Issued(h'[p]) = Issued(h[p])
             /\ h'[p].polls <= h[p].polls
             /\ \/ /\ InDrainSelect(p) /\ pc'[p] = "ret"
                   /\ Has(err'[p], "server not empty after timeout")
                \/ /\ h'[p].cancelled
                   /\ \/ pc'[p] = "ret" /\ Has(err'[p], "context canceled")
                      \/ /\ pc[p] = "resizeWait" /\ pc'[p] = "Poweron"
                         /\ Has(h'[p].innerErr, "context canceled")]_vars

C16_Witness ==
  \E p \in Procs :
    /\ Returned(p) /\ h[p].cancelled
    /\ h[p].changeType = 1 /\ h[p].poweron = 1


\* positions of the interval loop between the rule that was met and the
\* return of CoreLoop
Deciding(p) ==
  \/ pc[p] \in {"CanScale", "DoScale", "ret"} \/ InFlight(p)
  \/ pc[p] = "cycleEnd" /\ dir[p] # 0

\* C17: while the interval loop checks CanScale or runs DoScale, the queries
\* of the cycle are those of the rules up to the one that was met, in list
\* order: every earlier rule gave an empty vector, the last one queried gave
\* a non-empty vector, and its action is the direction in use.  No query is
\* made between the decision and the next cycle, whatever CanScale and
\* DoScale return.
C17_FirstMatchDecides ==
  /\ [](\A p \in Procs \ CronProcs :
          LET outs == h[p].outs
              n == Len(outs)
          IN /\ Deciding(p) =>
                  /\ n \in 1..Len(Rules) /\ outs[n] = "match"
                  /\ \A j \in 1..(n - 1) : outs[j] = "empty"
                  /\ dir[p] = Rules[n].Action
             /\ pc[p] = "cycleEnd" /\ dir[p] = 0 =>
                  n = Len(Rules) /\ \A j \in 1..n : outs[j] = "empty")
  /\ [][\A p \in Procs \ CronProcs :
          h'[p].outs # h[p].outs \/ dir'[p] # dir[p] =>
            pc[p] = "idle" \/ pc'[p] = "idle"]_vars

C17_Witness ==
  \E p \in Procs \ CronProcs :
    /\ Returned(p) /\ err[p] # Nil /\ h[p].notify = 1
    /\ h[p].outs = <<"empty", "match">> /\ dir[p] = -1

\* C18: a cycle of the interval loop in which a query fails or gives a
\* non-vector result ends there with an error: that rule is the last one
\* queried, every rule before it gave an empty vector, no direction is
\* chosen and neither CanScale nor DoScale is entered; main logs the error
\* and is back in its select, where the next cycle can start.
C18_QueryFailureEndsCycle ==
  /\ [](\A p \in Procs \ CronProcs :
          LET outs == h[p].outs
              n == Len(outs)
              failed == {j \in 1..n : outs[j] \in {"err", "scalar"}}
          IN /\ failed # {} =>
                  /\ pc[p] = "loopRet" /\ failed = {n}
                  /\ \A j \in 1..(n - 1) : outs[j] = "empty"
                  /\ err[p] # Nil /\ Has(err[p], "failed to evaluate rule")
                  /\ dir[p] = 0 /\ Issued(h[p]) = 0 /\ ~InFlight(p)
             /\ pc[p] = "idle" /\ ~ctxDone /\ ~Returning =>
                  ENABLED CoreLoop_Start(p))
  /\ [][\A p \in Procs \ CronProcs :
          pc[p] = "loopRet" =>
            /\ pc'[p] = "idle" /\ err'[p] = Nil
            /\ UNCHANGED << scaleLock, lastScaledAt >>]_vars

C18_Witness ==
  \E p \in Procs \ CronProcs :
    pc[p] = "loopRet" /\ h[p].outs = <<"empty", "scalar">>


Compare(op, a, b) ==
  CASE op = <<"<">> -> a < b
    [] op = <<">">> -> a > b
    [] op = <<"<", "=">> -> a <= b
    [] op = <<">", "=">> -> a >= b
    [] op = <<"=">> -> a = b
    [] OTHER -> FALSE

\* the guard g reads "<op> <n>", with op one of <, >, <=, >=, = and n an
\* integer, and (idx op n) holds
Permits(g, idx) ==
  \E k \in 1..Len(g) :
    /\ g[k] = " "
    /\ Atoi(SubSeq(g, k + 1, Len(g))).ok
    /\ Compare(SubSeq(g, 1, k - 1), idx, Atoi(SubSeq(g, k + 1, Len(g))).val)

\* the ladder index of the server as the fire in progress has read it
IndexNow == IndexOf(Ladder(serverTypesCache), serverType)

\* a fire of a guarded entry goes on to CanScale exactly when its guard
\* permits the current index; a fire whose guard refuses ends with nothing
\* issued
GuardedEntries(p) ==
  LET i == h[p].entry
      g == Schedule[i].IfSize
  IN /\ pc[p] = "guarded" =>
          /\ i \in 1..Len(Schedule) /\ IndexNow # -1
          /\ g # <<>> => Permits(g, IndexNow)
          /\ dir[p] = Schedule[i].Action
     /\ pc[p] = "cycleEnd" /\ i # 0 /\ err[p] = Nil =>
          /\ g # <<>> /\ IndexNow # -1 /\ ~Permits(g, IndexNow)
          /\ Issued(h[p]) = 0 /\ ~InFlight(p)

\* C20: a cron fire that has read the current ladder index goes on to
\* CanScale if and only if its entry has no guard or the guard "<op> <n>"
\* holds of the index; a guard that is false or malformed ends the fire with
\* no drain command and no provider call.  A fire of an entry with no guard
\* ends before CanScale only when the current size could not be read.
C20_GuardDecides ==
  /\ [](\A p \in CronProcs :
          /\ GuardedEntries(p)
          /\ h[p].entry # 0 /\ Schedule[h[p].entry].IfSize = <<>> =>
               \/ pc[p] = "guarded"
               \/ pc[p] = "cycleEnd" /\ err[p] # Nil /\ Issued(h[p]) = 0)
  /\ [][\A p \in CronProcs :
          /\ pc[p] = "guarded" => pc'[p] = "CanScale" /\ dir'[p] = dir[p]
          /\ pc[p] = "cycleEnd" =>
               pc'[p] = "idle" /\ UNCHANGED << scaleLock, lastScaledAt >>]_vars

\* C20 as stated: in addition to the guard rule, a fire of an entry with no
\* guard always goes on to CanScale.
C20_UnguardedAlwaysProceeds ==
  \A p \in CronProcs :
    /\ GuardedEntries(p)
    /\ h[p].entry # 0 /\ Schedule[h[p].entry].IfSize = <<>> => pc[p] = "guarded"

C20_Witness ==
  \E p \in CronProcs :
    /\ pc[p] = "guarded" /\ Schedule[h[p].entry].IfSize = <<">", "=", " ", "1">>
    /\ IndexNow = 1


\* the server's type is missing from the ladder of the cache c
OffLadder(c) == IndexOf(Ladder(c), serverType) = -1

\* C21: when the server's type is not in the ladder that a size read
\* yields, the CanScale of a trigger ends in an error and never leads to
\* DoScale, a cron fire ends at its first read, and a DoScale call returns an
\* error from its size resolution with nothing issued, the lock released and
\* lastScaledAt as it was, for either direction.
C21_CurrentSizeOffLadder ==
  /\ [](\A p \in Procs :
          Returned(p) /\ Has(err[p], "current size not found in sizes") =>
            /\ Issued(h[p]) = 0 /\ ~scaleLock
            /\ lastScaledAt = h[p].lsaEntry)
  /\ [][\A p \in Procs :
          /\ /\ pc[p] = "CanScale" /\ pc'[p] # "CanScale"
             /\ OffLadder(serverTypesCache')
             => /\ pc'[p] \in {"loopRet", "cycleEnd"} /\ err'[p] # Nil
                /\ Issued(h'[p]) = 0
                /\ UNCHANGED << scaleLock, lastScaledAt >>
          /\ /\ pc[p] = "resolve" /\ pc'[p] # "resolve"
             /\ OffLadder(serverTypesCache')
             => /\ pc'[p] = "ret" /\ err'[p] # Nil
                /\ Issued(h'[p]) = 0
                /\ ~scaleLock' /\ lastScaledAt' = lastScaledAt
          /\ /\ p \in CronProcs /\ pc[p] = "idle" /\ pc'[p] # "idle"
             /\ OffLadder(serverTypesCache')
             => /\ pc'[p] = "cycleEnd" /\ err'[p] # Nil
                /\ UNCHANGED << scaleLock, lastScaledAt >>]_vars

C21_Witness ==
  \E p \in Procs :
    /\ Returned(p) /\ Has(err[p], "current size not found in sizes")
    /\ serverType = "large" /\ dir[p] = -1


\* C22: getNewSize returns the index current + action clamped to the ladder
\* and the size at that index, without wrapping around; at an end of the
\* ladder a move towards that end gives the same size; one step up from
\* below the top followed by one step down, and one step down from above the
\* bottom followed by one step up, give the size the move started from.
C22_MoveClamps ==
  \A p \in Procs :
    LET L == Ladder(serverTypesCache)
        i == IndexOf(L, serverType)
        d == dir[p]
        r == getNewSize(i, d, L)
    IN /\ pc[p] \in {"moved", "back"} =>
            /\ r.index = Clamp(i + d, Len(L)) /\ r.size = L[r.index + 1]
            /\ h[p].target = L[Clamp(i + d, Len(L)) + 1]
            /\ (i = 0 /\ d <= 0) \/ (i = Len(L) - 1 /\ d >= 0) =>
                 h[p].target = serverType
            /\ d > 0 => IndexOf(L, h[p].target) >= i
            /\ d < 0 => IndexOf(L, h[p].target) <= i
       /\ pc[p] = "back" /\ d = 1 /\ i < Len(L) - 1 => newSize[p] = serverType
       /\ pc[p] = "back" /\ d = -1 /\ i > 0 => newSize[p] = serverType

C22_Witness ==
  \E p \in Procs :
    /\ pc[p] = "back" /\ dir[p] = 1 /\ serverType = "medium"
    /\ h[p].target = "large" /\ newSize[p] = "medium"


\* the response has the text shape the drain loop expects, colour codes apart
ExpectedShape(resp) == FindCount(StripFormat(resp)).matched

\* C23: a drain poll whose response lacks the expected shape makes DoScale
\* return at once with the "does not match expected format" error, the lock
\* released and lastScaledAt as it was; the call does not wait or poll again,
\* has sent no stop command and has made no provider call.
C23_MismatchEndsDrain ==
  /\ [](\A p \in Procs :
          /\ Returned(p)
               /\ Has(err[p], "list response does not match expected format") =>
               /\ h[p].resp # <<>> /\ ~ExpectedShape(h[p].resp)
               /\ ~h[p].zero /\ h[p].stopCmd = 0
               /\ h[p].shutdown + h[p].changeType + h[p].poweron = 0
               /\ ~scaleLock /\ lastScaledAt = h[p].lsaEntry
          /\ InFlight(p) /\ h[p].resp # <<>> =>
               pc[p] = "list" /\ ExpectedShape(h[p].resp))
  /\ [][\A p \in Procs :
          /\ pc[p] = "list" /\ h'[p] # h[p]
          /\ h'[p].resp # <<>> /\ ~ExpectedShape(h'[p].resp)
          => /\ pc'[p] = "ret"
             /\ Has(err'[p], "list response does not match expected format")
             /\ h'[p].stopCmd = 0]_vars

C23_Witness ==
  \E p \in Procs :
    /\ Returned(p) /\ Has(err[p], "list response does not match expected format")
    /\ h[p].notify = 1 /\ h[p].lists = 1 /\ h[p].resp # <<>>


\* the counters of the commands and provider calls of a call
Counters(hp) ==
  << hp.notify, hp.lists, hp.stopCmd, hp.shutdown, hp.changeType, hp.poweron >>

\* C24: the CanScale of a trigger leaves the lock, lastScaledAt, the server
\* and every call's command and provider-call counters as they were, whether
\* or not another call is in flight; when it returns no error its answer is
\* true, and the trigger goes on to DoScale, exactly when the clamped index
\* current + direction differs from the current index.
C24_CanScalePure ==
  [][\A p \in Procs :
       pc[p] = "CanScale" /\ pc'[p] # "CanScale" =>
         /\ UNCHANGED << scaleLock, lastScaledAt, mux, serverType, serverStatus >>
         /\ \A q \in Procs : Counters(h'[q]) = Counters(h[q])
         /\ Counters(h[p]) = << 0, 0, 0, 0, 0, 0 >>
         /\ dir'[p] = dir[p]
         /\ pc'[p] = "DoScale" <=>
              LET L == Ladder(serverTypesCache')
                  i == IndexOf(L, serverType)
              IN err'[p] = Nil /\ i # -1 /\ Clamp(i + dir[p], Len(L)) # i]_vars

C24_Witness ==
  \E p, q \in Procs :
    /\ pc[p] = "DoScale" /\ dir[p] = -1
    /\ InFlight(q) /\ scaleLock /\ h[q].shutdown = 1


\* the response reports a number of players other than zero
PlayersOnline(resp) ==
  ExpectedShape(resp) /\ FindCount(StripFormat(resp)).count # <<"0">>

\* C25: a call sends the stop command only after one of its occupancy polls
\* reported zero players.  A drain that ends at its deadline was waiting on
\* a response with players online; the call returns the timeout error with
\* no stop command sent, no provider call made and the lock released.  The
\* first step of the drain loop is a poll, and a poll that reports zero
\* players leads straight to the stop command.
C25_StopAfterZero ==
  /\ [](\A p \in Procs :
          /\ h[p].stopCmd >= 1 => h[p].zero /\ h[p].lists >= 1
          /\ pc[p] = "stop" => h[p].zero /\ h[p].stopCmd = 0
          /\ Returned(p) /\ Has(err[p], "server not empty after timeout") =>
               /\ h[p].lists >= 1 /\ PlayersOnline(h[p].resp) /\ ~h[p].zero
               /\ h[p].stopCmd = 0
               /\ h[p].shutdown + h[p].changeType + h[p].poweron = 0
               /\ ~scaleLock /\ lastScaledAt = h[p].lsaEntry)
  /\ [][\A p \in Procs :
          /\ pc[p] = "list" /\ h[p].lists = 0
               /\ (pc'[p] # pc[p] \/ h'[p] # h[p]) => h'[p].lists = 1
          /\ pc[p] = "list" /\ h'[p].zero => pc'[p] = "stop"
          /\ pc[p] = "list" /\ pc'[p] = "stop" => h'[p].zero /\ h'[p] # h[p]]_vars

C25_Witness ==
  \E p \in Procs :
    /\ Returned(p) /\ Has(err[p], "server not empty after timeout")
    /\ h[p].notify = 1 /\ h[p].lists >= 1


\* C26: a guard written with "==" never lets a fire through, whatever the
\* current index and the operand, equal or not; the same guard written with
\* "=" lets the fire through exactly when the index equals the operand.
C26_DoubleEqualsIgnored ==
  \A p \in Procs :
    h[p].entry # 0 =>
      LET k == h[p].entry
      IN /\ pc[p] \in {"guarded", "cycleEnd"}
         /\ GuardOp(k) = <<"=", "=">> => pc[p] = "cycleEnd"
         /\ GuardOp(k) = <<"=">> =>
              (pc[p] = "guarded" <=> IndexNow = GuardOperand(k))

C26_Witness ==
  \E p \in Procs :
    /\ pc[p] = "cycleEnd" /\ h[p].entry # 0
    /\ GuardOp(h[p].entry) = <<"=", "=">>
    /\ GuardOperand(h[p].entry) = IndexNow /\ IndexNow = 2


\* ladder steps between two sizes, counted on the ladder of every allowed size
StepsApart(a, b) ==
  LET L == Ladder(SizeNames)
      d == IndexOf(L, a) - IndexOf(L, b)
  IN IF d < 0 THEN 0 - d ELSE d

\* C27: the target of a ChangeType in progress is no more than one ladder
\* step away from the size the server has, whatever action the trigger
\* carries.
C27_OneStepAtATime ==
  \A p \in Procs :
    InFlight(p) /\ h[p].changeType >= 1 =>
      StepsApart(h[p].target, serverType) <= 1


\* C28: a call whose resize failed and whose recovery Poweron succeeded
\* returns "failed to resize server" around the resize error, with the lock
\* released and lastScaledAt as it was when the call started, so that the
\* cooldown test of a call starting now does not reject it.
C28_RecoveryKeepsError ==
  \A p \in Procs :
    Returned(p) /\ h[p].innerErr # Nil /\ h[p].poweron = 1 /\ h[p].recErr = Nil =>
      /\ err[p] = <<"failed to resize server">> \o h[p].innerErr
      /\ ~scaleLock
      /\ lastScaledAt = h[p].lsaEntry
      /\ lastScaledAt = ZeroTime \/ lastScaledAt + MinTimeBetweenActions <= now

C28_Witness ==
  \E p \in Procs :
    /\ Returned(p) /\ h[p].innerErr # Nil /\ h[p].poweron = 1 /\ h[p].recErr = Nil
    /\ h[p].changeType = 1 /\ serverStatus = "running" /\ lastScaledAt # ZeroTime

====
